---- MODULE Spec2Model ----
(***************************************************************************)
(* Model of backend/pattern-extractor.py: the rule registry, the regex     *)
(* scan of a corpus, hash grouping, the report and the sqlite persistence  *)
(* of TypeScriptPatternExtractor, driven by main().                        *)
(*                                                                         *)
(* Text is modelled by TLA+ strings; offsets are Python's (0-based start,  *)
(* exclusive end), so content[a:b] is SubSeq(content, a + 1, b).           *)
(***************************************************************************)
EXTENDS Integers, Sequences, FiniteSets, TLC

(***************************************************************************)
(* Bounds of the model.                                                    *)
(***************************************************************************)
\* number of source files under the corpus root
MaxFiles == 2

(***************************************************************************)
(* Strings.                                                                *)
(***************************************************************************)
None == "None"

Range(seq) == {seq[i] : i \in DOMAIN seq}

Char(s, i) == SubSeq(s, i, i)

\* s[a:b] with Python offsets
Slice(s, a, b) == SubSeq(s, a + 1, b)

\* str.count(c) for a one-character c
Count(s, c) == Cardinality({i \in 1..Len(s) : Char(s, i) = c})

\* sub in s
Contains(s, sub) ==
    \E i \in 0..(Len(s) - Len(sub)) : Slice(s, i, i + Len(sub)) = sub

EndsWith(s, suffix) ==
    Len(s) >= Len(suffix) /\ Slice(s, Len(s) - Len(suffix), Len(s)) = suffix

Whitespace == {" ", "\t", "\n", "\r", "\f"}

\* str.strip()
Strip(s) ==
    LET keep == {i \in 1..Len(s) : Char(s, i) \notin Whitespace}
    IN  IF keep = {} THEN ""
        ELSE LET lo == CHOOSE i \in keep : \A j \in keep : i <= j
                 hi == CHOOSE i \in keep : \A j \in keep : j <= i
             IN  SubSeq(s, lo, hi)

Lower == {"a", "b", "c", "d", "e", "f", "g", "h", "i", "j", "k", "l", "m",
          "n", "o", "p", "q", "r", "s", "t", "u", "v", "w", "x", "y", "z"}
Upper == {"A", "B", "C", "D", "E", "F", "G", "H", "I", "J", "K", "L", "M",
          "N", "O", "P", "Q", "R", "S", "T", "U", "V", "W", "X", "Y", "Z"}
Digit == {"0", "1", "2", "3", "4", "5", "6", "7", "8", "9"}
\* \w
Word == Lower \cup Upper \cup Digit \cup {"_"}

(***************************************************************************)
(* Regular expressions, matched as Python's re does: backtracking,         *)
(* leftmost start, alternatives in order, greedy repetition.  The flags    *)
(* are re.MULTILINE | re.DOTALL, so '.' is any character.                  *)
(***************************************************************************)
Lit(x) == [t |-> "lit", s |-> x]
\* a literal under re.IGNORECASE, written in lower case
ILit(x) == [t |-> "ilit", s |-> x]
Cls(S) == [t |-> "cls", cs |-> S]
NotCls(S) == [t |-> "ncls", cs |-> S]
Dot == [t |-> "any"]
\* '.' without re.DOTALL: any character but the newline
DotLine == [t |-> "anyline"]
WordB == [t |-> "wb"]
Cat(x, y) == [t |-> "cat", a |-> x, b |-> y]
Alt(x, y) == [t |-> "alt", a |-> x, b |-> y]
Star(x) == [t |-> "star", a |-> x]
Plus(x) == Cat(x, Star(x))
Opt(x) == Alt(x, Lit(""))

RECURSIVE Cats(_)
Cats(rs) == IF Len(rs) = 1 THEN rs[1] ELSE Cat(rs[1], Cats(Tail(rs)))

RECURSIVE Alts(_)
Alts(rs) == IF Len(rs) = 1 THEN rs[1] ELSE Alt(rs[1], Alts(Tail(rs)))

\* (x|y|...) over literal words
Words(ws) == Alts([i \in DOMAIN ws |-> Lit(ws[i])])

S0 == Star(Cls(Whitespace))
S1 == Plus(Cls(Whitespace))
W1 == Plus(Cls(Word))

LowerCase == "abcdefghijklmnopqrstuvwxyz"
UpperCase == "ABCDEFGHIJKLMNOPQRSTUVWXYZ"

RECURSIVE lower(_)
\* str.lower()
lower(s) ==
    IF s = "" THEN ""
    ELSE LET c == Char(s, 1)
             lc == IF c \in Upper
                   THEN Char(LowerCase, CHOOSE i \in 1..Len(UpperCase) : Char(UpperCase, i) = c)
                   ELSE c
         IN  lc \o lower(SubSeq(s, 2, Len(s)))

IsWordAt(s, i) == i >= 1 /\ i <= Len(s) /\ Char(s, i) \in Word

RECURSIVE Ends(_, _, _)
RECURSIVE EndsFrom(_, _, _, _)

\* the end offsets of the matches of re in s that start at offset p, in the
\* order a backtracking matcher tries them
Ends(re, s, p) ==
    CASE re.t = "lit" ->
            IF p + Len(re.s) <= Len(s) /\ Slice(s, p, p + Len(re.s)) = re.s
            THEN <<p + Len(re.s)>> ELSE <<>>
      [] re.t = "ilit" ->
            IF p + Len(re.s) <= Len(s) /\ lower(Slice(s, p, p + Len(re.s))) = re.s
            THEN <<p + Len(re.s)>> ELSE <<>>
      [] re.t = "cls" ->
            IF p < Len(s) /\ Char(s, p + 1) \in re.cs THEN <<p + 1>> ELSE <<>>
      [] re.t = "ncls" ->
            IF p < Len(s) /\ Char(s, p + 1) \notin re.cs THEN <<p + 1>> ELSE <<>>
      [] re.t = "any" ->
            IF p < Len(s) THEN <<p + 1>> ELSE <<>>
      [] re.t = "anyline" ->
            IF p < Len(s) /\ Char(s, p + 1) # "\n" THEN <<p + 1>> ELSE <<>>
      [] re.t = "wb" ->
            IF IsWordAt(s, p) # IsWordAt(s, p + 1) THEN <<p>> ELSE <<>>
      [] re.t = "cat" -> EndsFrom(re.b, s, Ends(re.a, s, p), 1)
      [] re.t = "alt" -> Ends(re.a, s, p) \o Ends(re.b, s, p)
      [] re.t = "star" ->
            EndsFrom(re, s, SelectSeq(Ends(re.a, s, p), LAMBDA e : e > p), 1) \o <<p>>

\* the matches of re continuing from each of the offsets starts[i..]
EndsFrom(re, s, starts, i) ==
    IF i > Len(starts) THEN <<>>
    ELSE Ends(re, s, starts[i]) \o EndsFrom(re, s, starts, i + 1)

\* re.search(regex, content) finds a match
search(re, s) == \E q \in 0..Len(s) : Ends(re, s, q) # <<>>

RECURSIVE finditer(_, _, _)
\* re.finditer(regex, content) from offset p: the non-overlapping matches,
\* leftmost first, as [start, end] spans
finditer(re, s, p) ==
    LET starts == {q \in p..Len(s) : Ends(re, s, q) # <<>>}
    IN  IF starts = {} THEN <<>>
        ELSE LET q == CHOOSE x \in starts : \A y \in starts : x <= y
                 e == Ends(re, s, q)[1]
             IN  <<[start |-> q, end |-> e]>>
                 \o (IF e > q THEN finditer(re, s, e)
                     ELSE IF q < Len(s) THEN finditer(re, s, q + 1) ELSE <<>>)

(***************************************************************************)
(* PatternCategory, PatternSeverity and the rule registry.  A severity is  *)
(* kept in tenths (0.3 is 3), which keeps the comparisons of the report    *)
(* exact.                                                                  *)
(***************************************************************************)
PERFORMANCE == "performance"
TYPE_SAFETY == "type-safety"
ARCHITECTURE == "architecture"
ERROR_HANDLING == "error-handling"
ASYNC_PATTERNS == "async-patterns"
REACT_PATTERNS == "react-patterns"
FILE_OPERATIONS == "file-operations"
CODE_QUALITY == "code-quality"

PatternCategory == {PERFORMANCE, TYPE_SAFETY, ARCHITECTURE, ERROR_HANDLING,
                    ASYNC_PATTERNS, REACT_PATTERNS, FILE_OPERATIONS, CODE_QUALITY}

LOW == 3
MEDIUM == 6
HIGH == 9
CRITICAL == 10

PatternSeverity == [LOW |-> LOW, MEDIUM |-> MEDIUM, HIGH |-> HIGH, CRITICAL |-> CRITICAL]

Rule(id, re, cat, sub, desc, sev, tg) ==
    [id |-> id, regex |-> re, category |-> cat, subcategory |-> sub,
     description |-> desc, severity |-> sev, tags |-> tg]

\* A TLA+ string cannot hold the backquote character: the model's texts write
\* it "~", a character that none of the rules mentions.
Backquote == "~"

callback(w) ==
    Cats(<<Lit("("), S0, Lit(w), Opt(Lit(",")), S0, Star(Cls(Word)), S0,
           Lit(")"), S0, Lit("=>"), S0, Lit("{")>>)

\* self.pattern_definitions, in the order of the dict
pattern_definitions == <<
    Rule("fs_sync_operations",
         Cat(Lit("fs."), Words(<<"readFileSync", "writeFileSync", "appendFileSync",
                                 "existsSync", "statSync", "lstatSync", "mkdirSync",
                                 "rmdirSync">>)),
         PERFORMANCE, "synchronous-io",
         "Synchronous filesystem operations that block the event loop",
         HIGH, <<"blocking", "filesystem", "performance">>),
    Rule("fs_async_operations",
         Cat(Lit("fs."), Words(<<"readFile", "writeFile", "appendFile", "exists",
                                 "stat", "lstat", "mkdir", "rmdir", "readdir">>)),
         PERFORMANCE, "asynchronous-io",
         "Asynchronous filesystem operations",
         LOW, <<"non-blocking", "filesystem", "async">>),
    Rule("any_type_usage",
         Alts(<<Cats(<<Lit(":"), S0, Lit("any"), WordB>>),
                Cats(<<Lit("as"), S1, Lit("any"), WordB>>),
                Cats(<<WordB, Lit("any[]")>>)>>),
         TYPE_SAFETY, "weak-typing",
         "Usage of any type which bypasses TypeScript type checking",
         MEDIUM, <<"type-safety", "any-type", "weak-typing">>),
    Rule("interface_definitions",
         Cats(<<Lit("interface"), S1, W1, S0, Lit("{"), Plus(NotCls({"}"})), Lit("}")>>),
         TYPE_SAFETY, "strong-typing",
         "Interface definitions for type safety",
         LOW, <<"interfaces", "type-safety", "strong-typing">>),
    Rule("type_assertions",
         Alt(Cats(<<Lit("as"), S1, W1>>), Cats(<<Lit("<"), W1, Lit(">")>>)),
         TYPE_SAFETY, "type-casting",
         "Type assertions that may bypass type checking",
         MEDIUM, <<"type-assertions", "type-casting">>),
    Rule("await_usage",
         Cats(<<WordB, Lit("await"), S1>>),
         ASYNC_PATTERNS, "await-async",
         "Await keyword usage for asynchronous operations",
         LOW, <<"async", "await", "promises">>),
    Rule("promise_usage",
         Alt(Cats(<<Lit("new"), S1, Lit("Promise")>>),
             Cat(Lit("Promise."), Words(<<"all", "race", "resolve", "reject">>))),
         ASYNC_PATTERNS, "promises",
         "Promise-based asynchronous patterns",
         LOW, <<"promises", "async">>),
    Rule("callback_patterns",
         Alt(callback("err"), callback("error")),
         ASYNC_PATTERNS, "callbacks",
         "Callback-based asynchronous patterns",
         MEDIUM, <<"callbacks", "async", "error-first">>),
    Rule("react_hooks",
         Cats(<<Lit("use"),
                Words(<<"State", "Effect", "Context", "Reducer", "Callback", "Memo",
                        "Ref", "ImperativeHandle", "LayoutEffect", "DebugValue">>),
                S0, Lit("(")>>),
         REACT_PATTERNS, "hooks",
         "React hooks usage",
         LOW, <<"react", "hooks", "functional-components">>),
    Rule("react_memo",
         Alt(Cats(<<Lit("React.memo"), S0, Lit("(")>>), Cats(<<Lit("memo"), S0, Lit("(")>>)),
         REACT_PATTERNS, "performance",
         "React.memo usage for component memoization",
         LOW, <<"react", "memo", "performance", "optimization">>),
    Rule("useCallback_useMemo",
         Cats(<<Lit("use"), Words(<<"Callback", "Memo">>), S0, Lit("(")>>),
         REACT_PATTERNS, "performance",
         "useCallback/useMemo for performance optimization",
         LOW, <<"react", "performance", "memoization">>),
    Rule("try_catch_blocks",
         Cats(<<Lit("try"), S0, Lit("{"), Star(NotCls({"}"})), Lit("}"), S0,
                Lit("catch"), S0, Lit("("), Star(NotCls({")"})), Lit(")"), S0, Lit("{")>>),
         ERROR_HANDLING, "exception-handling",
         "Try-catch blocks for error handling",
         LOW, <<"error-handling", "exceptions", "try-catch">>),
    Rule("error_throwing",
         Alt(Cats(<<Lit("throw"), S1, Lit("new"), S1, Star(Cls(Word)), Lit("Error")>>),
             Cats(<<Lit("throw"), S1, W1>>)),
         ERROR_HANDLING, "error-throwing",
         "Error throwing patterns",
         LOW, <<"error-handling", "throw", "exceptions">>),
    Rule("arrow_functions",
         Alt(Cats(<<Lit("=>"), S0, Lit("{")>>), Cats(<<Lit("=>"), S0, W1>>)),
         ARCHITECTURE, "functional-programming",
         "Arrow function usage",
         LOW, <<"arrow-functions", "functional", "es6">>),
    Rule("destructuring",
         Alt(Cats(<<Lit("const"), S0, Lit("{"), S0, W1, Star(Dot), Lit("}"), S0, Lit("=")>>),
             Cats(<<Lit("const"), S0, Lit("["), S0, W1, Star(Dot), Lit("]"), S0, Lit("=")>>)),
         ARCHITECTURE, "es6-features",
         "Object/array destructuring patterns",
         LOW, <<"destructuring", "es6", "modern-js">>),
    Rule("template_literals",
         Cats(<<Lit(Backquote), Star(NotCls({Backquote})), Lit("${"),
                Plus(NotCls({"}"})), Lit("}"), Star(NotCls({Backquote})), Lit(Backquote)>>),
         ARCHITECTURE, "es6-features",
         "Template literal usage",
         LOW, <<"template-literals", "es6", "string-interpolation">>),
    Rule("console_statements",
         Cat(Lit("console."), Words(<<"log", "warn", "error", "info", "debug">>)),
         CODE_QUALITY, "debugging",
         "Console statements that may need removal in production",
         MEDIUM, <<"console", "debugging", "production-cleanup">>),
    Rule("todo_comments",
         Cats(<<Lit("//"), S0, Words(<<"TODO", "FIXME", "HACK", "XXX", "BUG">>)>>),
         CODE_QUALITY, "technical-debt",
         "TODO/FIXME comments indicating technical debt",
         MEDIUM, <<"todo", "technical-debt", "comments">>)
>>

(***************************************************************************)
(* The texts of the source files of the model, and the matches of every    *)
(* rule in each of them.                                                   *)
(***************************************************************************)
\* texts of source files, as f.read() returns them
Contents == {
    "fs.readFileSync(path)",
    "let v: any = x as\nany",
    "const {a, b} = obj",
    "await f()\nawait \ng()",
    "y = 2"
}

\* texts of the files of an earlier corpus
EarlierContents == <<"fs.readFileSync(path)", "console.log(x as any)">>

\* texts of the file of a one-file corpus: a call with blocking I/O alone,
\* after three lines and before three, and after a form feed; texts with the
\* indicators of two frameworks; a text with no rule match and no indicator
ScanContents == {
    "fs.readFileSync(path)",
    "a\nb\nc\nfs.statSync(p)\nd\ne\nf",
    "a\fb\nfs.statSync(p)\nc",
    "import React from 'react'\nmodule.exports = fs.statSync(p)",
    "import Vue from 'vue'\napp.get(fs.statSync(p))",
    "import Vue from 'vue'\nimport React from 'react'\nfs.statSync(p)",
    "from '@angular/core'\nrequire(fs.statSync(p))",
    "app.post(fs.statSync(p))\nrequire('x')",
    "module.exports = fs.statSync(p)",
    "y = 2"
}

\* every text a file is given
AllContents == Contents \cup Range(EarlierContents) \cup ScanContents

\* list(re.finditer(pattern_def['regex'], content, re.MULTILINE | re.DOTALL))
\* for each text and each rule (by position in the registry), computed once
Matches ==
    [content \in AllContents |->
        [i \in DOMAIN pattern_definitions |->
            finditer(pattern_definitions[i].regex, content, 0)]]

(***************************************************************************)
(* CodePattern and the scan of one file.                                   *)
(***************************************************************************)
\* hashlib.md5(...).hexdigest(): a digest is a symbolic value that is equal
\* to another exactly when the digested texts are (no collision is modelled).
md5(text) == <<"md5", text>>

\* pattern_hash that leaves the rule id out of the digested text
pattern_hash_NoType(p) ==
    md5(p.pattern_content \o ":" \o p.category)

\* CodePattern.pattern_hash
pattern_hash(p) ==
    md5(p.pattern_type \o ":" \o p.pattern_content \o ":" \o p.category)

LineBreaks == {"\n", "\r", "\f"}

RECURSIVE splitlines(_)
\* str.splitlines(): the lines without their terminators ("\r\n" is one
\* break; a break at the very end opens no further line)
splitlines(s) ==
    IF s = "" THEN <<>>
    ELSE LET brks == {i \in 1..Len(s) : Char(s, i) \in LineBreaks}
         IN  IF brks = {} THEN <<s>>
             ELSE LET b == CHOOSE i \in brks : \A j \in brks : i <= j
                      crlf == Char(s, b) = "\r" /\ b < Len(s) /\ Char(s, b + 1) = "\n"
                      rest == SubSeq(s, (IF crlf THEN b + 2 ELSE b + 1), Len(s))
                  IN  <<SubSeq(s, 1, b - 1)>> \o splitlines(rest)

RECURSIVE join(_, _)
\* sep.join(parts)
join(sep, parts) ==
    IF parts = <<>> THEN ""
    ELSE IF Len(parts) = 1 THEN parts[1]
    ELSE parts[1] \o sep \o join(sep, Tail(parts))

Min(a, b) == IF a <= b THEN a ELSE b
Max(a, b) == IF a >= b THEN a ELSE b

\* seq[a:b] of a Python list, for a, b >= 0
ListSlice(seq, a, b) == SubSeq(seq, a + 1, Min(b, Len(seq)))

\* line_start = content[:match.start()].count('\n') + 1
line_start(content, match) == Count(Slice(content, 0, match.start), "\n") + 1

\* line_end that counts up to the start of the match
line_end_FromStart(content, match) == Count(Slice(content, 0, match.start), "\n") + 1

\* line_end = content[:match.end()].count('\n') + 1
line_end(content, match) == Count(Slice(content, 0, match.end), "\n") + 1

\* _determine_language
_determine_language(file_path) ==
    CASE EndsWith(file_path, ".ts") -> "typescript"
      [] EndsWith(file_path, ".tsx") -> "typescript"
      [] EndsWith(file_path, ".js") -> "javascript"
      [] EndsWith(file_path, ".jsx") -> "javascript"
      [] OTHER -> "unknown"

Quotes == {"\"", "'"}

\* import.*NAME|from\s+["']NAME["'] under re.IGNORECASE
ImportOf(name) ==
    Alt(Cats(<<ILit("import"), Star(DotLine), ILit(name)>>),
        Cats(<<ILit("from"), S1, Cls(Quotes), ILit(name), Cls(Quotes)>>))

\* the tests _determine_framework makes on the content, in its order: the
\* react, vue and angular searches, the express and the nodejs substrings
framework_indicators ==
    <<ImportOf("react"),
      ImportOf("vue"),
      Alt(Cats(<<ILit("import"), Star(DotLine), ILit("angular")>>),
          Cats(<<ILit("from"), S1, Cls(Quotes), ILit("@angular")>>)),
      Alts(<<Lit("express("), Lit("app.get"), Lit("app.post")>>),
      Alt(Lit("require("), Lit("module.exports"))>>

\* whether each test of _determine_framework on the content finds something,
\* per text of the corpus (computed once per text)
Indicated ==
    [content \in AllContents |->
        [i \in DOMAIN framework_indicators |-> search(framework_indicators[i], content)]]

\* _determine_framework that tests the nodejs indicators first
_determine_framework_NodeFirst(content, file_path) ==
    IF Contains(file_path, "node") \/ Indicated[content][5] THEN "nodejs"
    ELSE IF Indicated[content][1] THEN "react"
    ELSE IF Indicated[content][2] THEN "vue"
    ELSE IF Indicated[content][3] THEN "angular"
    ELSE IF Indicated[content][4] THEN "express"
    ELSE None

\* _determine_framework; file_path is the full path of the file
_determine_framework(content, file_path) ==
    IF Indicated[content][1] THEN "react"
    ELSE IF Indicated[content][2] THEN "vue"
    ELSE IF Indicated[content][3] THEN "angular"
    ELSE IF Indicated[content][4] THEN "express"
    ELSE IF Contains(file_path, "node") \/ Indicated[content][5] THEN "nodejs"
    ELSE None

\* the CodePattern built for one match of one rule (body of the inner loop);
\* framework is the value _determine_framework gave for the file
CodePattern(pattern_def, match, relative_path, content, framework) ==
    LET lines == splitlines(content)
        ls == line_start(content, match)
        le == line_end(content, match)
        context_start == Max(0, ls - 3)
        context_end == Min(Len(lines), le + 2)
        group0 == Slice(content, match.start, match.end)
    IN  [pattern_type |-> pattern_def.id,
         pattern_content |-> Strip(group0),
         description |-> pattern_def.description,
         category |-> pattern_def.category,
         subcategory |-> pattern_def.subcategory,
         file_path |-> relative_path,
         line_start |-> ls,
         line_end |-> le,
         language |-> _determine_language(relative_path),
         framework |-> framework,
         confidence_score |-> pattern_def.severity,
         usage_count |-> 1,
         context_before |-> join("\n", ListSlice(lines, context_start, ls - 1)),
         context_after |-> join("\n", ListSlice(lines, le, context_end)),
         tags |-> pattern_def.tags,
         metadata |-> [match_length |-> Len(group0),
                       file_size |-> Len(content),
                       total_lines |-> Len(lines)]]

\* the patterns of rule i of the registry in one file, in match order
RulePatterns(i, relative_path, content, framework) ==
    LET matches == Matches[content][i]
    IN  [k \in 1..Len(matches) |->
            CodePattern(pattern_definitions[i], matches[k], relative_path, content,
                        framework)]

RECURSIVE PatternsFromRule(_, _, _, _)
\* what _extract_patterns_from_file appends for the rules i.. of the registry
PatternsFromRule(i, relative_path, content, framework) ==
    IF i > Len(pattern_definitions) THEN <<>>
    ELSE RulePatterns(i, relative_path, content, framework)
         \o PatternsFromRule(i + 1, relative_path, content, framework)

\* str(file_path) of a file of the corpus
FullPath(repository_path, relative_path) == repository_path \o "/" \o relative_path

\* a file that open() and read() give the text of
File(text) == [ok |-> TRUE, text |-> text]

\* a file that open() raises on
Unreadable == [ok |-> FALSE, text |-> ""]

\* what _extract_patterns_from_file appends to self.patterns for the file at
\* relative_path under repository_path: nothing if the file cannot be read
_extract_patterns_from_file(repository_path, relative_path, file) ==
    IF ~file.ok THEN <<>>
    ELSE PatternsFromRule(1, relative_path, file.text,
             _determine_framework(file.text, FullPath(repository_path, relative_path)))

(***************************************************************************)
(* Grouping by hash (save_patterns_to_database) and the stored rows.       *)
(***************************************************************************)
\* the dict entry of hash_key, as an index into the groups, or 0
GroupIndex(groups, hash_key) ==
    IF \E g \in DOMAIN groups : groups[g].hash = hash_key
    THEN CHOOSE g \in DOMAIN groups : groups[g].hash = hash_key
    ELSE 0

\* AddToGroup without the test "if hash_key not in pattern_groups": the entry
\* is created anew for every occurrence
AddToGroup_NoMembershipTest(groups, pats, i) ==
    LET hash_key == pattern_hash(pats[i])
        g == GroupIndex(groups, hash_key)
        fresh == [hash |-> hash_key, pattern |-> i, count |-> 1,
                  files |-> {pats[i].file_path}]
    IN  IF g = 0 THEN Append(groups, fresh) ELSE [groups EXCEPT ![g] = fresh]

\* one turn of "for pattern in self.patterns": pattern is pats[i]; a group
\* keeps a reference (index) to its first pattern, its count and its files
AddToGroup(groups, pats, i) ==
    LET hash_key == pattern_hash(pats[i])
        g == GroupIndex(groups, hash_key)
    IN  IF g = 0
        THEN Append(groups, [hash |-> hash_key, pattern |-> i, count |-> 1,
                             files |-> {pats[i].file_path}])
        ELSE [groups EXCEPT ![g].count = @ + 1,
                            ![g].files = @ \cup {pats[i].file_path}]

RECURSIVE GroupUpTo(_, _)
GroupUpTo(pats, n) ==
    IF n = 0 THEN <<>> ELSE AddToGroup(GroupUpTo(pats, n - 1), pats, n)

\* pattern_groups, in the insertion order of the dict
GroupPatterns(pats) == GroupUpTo(pats, Len(pats))

\* pattern.metadata['file_count'] = ...; pattern.metadata['files'] = ...
WithFiles(pattern, group_data) ==
    [pattern EXCEPT !.metadata =
        ("file_count" :> Cardinality(group_data.files))
        @@ ("files" :> group_data.files)
        @@ [k \in (DOMAIN @) \ {"file_count", "files"} |-> @[k]]]

\* the row of the INSERT (the generated id and the two timestamps are left out)
Row(repository_id, pattern, usage_count) ==
    [repository_id |-> repository_id,
     pattern_type |-> pattern.pattern_type,
     pattern_content |-> pattern.pattern_content,
     pattern_hash |-> pattern_hash(pattern),
     description |-> pattern.description,
     category |-> pattern.category,
     subcategory |-> pattern.subcategory,
     tags |-> pattern.tags,
     file_path |-> pattern.file_path,
     line_start |-> pattern.line_start,
     line_end |-> pattern.line_end,
     language |-> pattern.language,
     framework |-> pattern.framework,
     confidence_score |-> pattern.confidence_score,
     usage_count |-> usage_count,
     context_before |-> pattern.context_before,
     context_after |-> pattern.context_after,
     metadata |-> pattern.metadata]

\* DELETE FROM repository_patterns WHERE repository_id = ?
DeleteRows(table, repository_id) ==
    SelectSeq(table, LAMBDA r : r.repository_id # repository_id)

RowsOf(table, repository_id) ==
    SelectSeq(table, LAMBDA r : r.repository_id = repository_id)

(***************************************************************************)
(* generate_pattern_report.  A dict is a sequence of <<key, value>> items  *)
(* in insertion order.                                                     *)
(***************************************************************************)
Keys(d) == {d[i][1] : i \in DOMAIN d}

Get(d, k, default) ==
    IF k \in Keys(d) THEN d[CHOOSE i \in DOMAIN d : d[i][1] = k][2] ELSE default

\* d[k] = v
Put(d, k, v) ==
    IF k \in Keys(d)
    THEN [i \in DOMAIN d |-> IF d[i][1] = k THEN <<k, v>> ELSE d[i]]
    ELSE Append(d, <<k, v>>)

\* Incr that stores 1 instead of adding 1
Incr_NoAdd(d, k) == Put(d, k, 1)

\* d[k] = d.get(k, 0) + 1
Incr(d, k) == Put(d, k, Get(d, k, 0) + 1)

\* the tier the report counts a confidence score under
SeverityOf(confidence_score) ==
    IF confidence_score >= 9 THEN "critical"
    ELSE IF confidence_score >= 6 THEN "high"
    ELSE IF confidence_score >= 3 THEN "medium"
    ELSE "low"

\* the key a pattern is counted under in one of the four dicts of the report
CountKey(pattern, dict) ==
    IF dict = "severity" THEN SeverityOf(pattern.confidence_score) ELSE pattern[dict]

RECURSIVE CountBy(_, _, _)
\* the counting loop "for pattern in self.patterns", for one of the dicts
CountBy(pats, n, dict) ==
    IF n = 0 THEN <<>> ELSE Incr(CountBy(pats, n - 1, dict), CountKey(pats[n], dict))

RECURSIVE InsertDesc(_, _)
InsertDesc(sorted, item) ==
    IF sorted = <<>> THEN <<item>>
    ELSE IF Head(sorted)[2] >= item[2] THEN <<Head(sorted)>> \o InsertDesc(Tail(sorted), item)
    ELSE <<item>> \o sorted

RECURSIVE SortedDesc(_, _)
\* sorted(d.items(), key=lambda x: x[1], reverse=True): stable
SortedDesc(d, n) ==
    IF n = 0 THEN <<>> ELSE InsertDesc(SortedDesc(d, n - 1), d[n])

TopFiles == 10

generate_pattern_report(pats, repository_path) ==
    IF pats = <<>> THEN [message |-> "No patterns found"]
    ELSE LET file_counts == CountBy(pats, Len(pats), "file_path")
             type_counts == CountBy(pats, Len(pats), "pattern_type")
         IN  [total_patterns |-> Len(pats),
              category_breakdown |-> CountBy(pats, Len(pats), "category"),
              severity_breakdown |-> CountBy(pats, Len(pats), "severity"),
              top_files_by_pattern_count |->
                  SubSeq(SortedDesc(file_counts, Len(file_counts)), 1,
                         Min(TopFiles, Len(file_counts))),
              pattern_type_breakdown |-> SortedDesc(type_counts, Len(type_counts)),
              repository_path |-> repository_path]

(***************************************************************************)
(* The inputs of a run: the corpus on disk, the command line and the       *)
(* table repository_patterns as earlier runs left it.                      *)
(***************************************************************************)

\* paths of the source files, relative to the corpus root
AllPaths == <<"src/a.ts", "src/b.ts", "lib/c.js", "lib/d.jsx">>

CorpusPaths == {AllPaths[i] : i \in 1..Min(MaxFiles, Len(AllPaths))}

RepoPaths == {"/w"}

RepositoryIds == {"repo-1"}

\* args.repository_id: absent, empty or an id
RepositoryIdArgs == {None, ""} \cup RepositoryIds

\* truth value of "if args.repository_id"
Truthy(repository_id) == repository_id # None /\ repository_id # ""

Perms(S) ==
    {p \in [1..Cardinality(S) -> S] : \A x \in S : \E i \in DOMAIN p : p[i] = x}

\* list(self.repository_path.rglob("*" + ext)): the files in the order the
\* file system lists them, which is any order
rglob(paths, ext) == Perms({f \in paths : EndsWith(f, ext)})

\* the possible values of all_files
all_files(paths) ==
    {ts \o js \o tsx \o jsx :
        ts \in rglob(paths, ".ts"), js \in rglob(paths, ".js"),
        tsx \in rglob(paths, ".tsx"), jsx \in rglob(paths, ".jsx")}

\* filtered without the test for node_modules
filtered_OnlyDist(repository_path, files) ==
    SelectSeq(files, LAMBDA f : ~Contains(FullPath(repository_path, f), "dist"))

\* Filter out node_modules and dist directories
filtered(repository_path, files) ==
    SelectSeq(files, LAMBDA f :
        /\ ~Contains(FullPath(repository_path, f), "node_modules")
        /\ ~Contains(FullPath(repository_path, f), "dist"))

\* the rows a complete save of pats under repository_id inserts
SavedRows(repository_id, pats) ==
    LET groups == GroupPatterns(pats)
    IN  [g \in DOMAIN groups |->
            Row(repository_id, WithFiles(pats[groups[g].pattern], groups[g]),
                groups[g].count)]

\* the patterns of an earlier corpus
EarlierPatterns ==
    _extract_patterns_from_file("/w", "src/old.ts", File(EarlierContents[1]))
    \o _extract_patterns_from_file("/w", "src/a.ts", File(EarlierContents[2]))

\* the table as earlier runs can have left it
InitialTables ==
    {<<>>,
     SavedRows("repo-2", EarlierPatterns),
     SavedRows("repo-1", EarlierPatterns) \o SavedRows("repo-2", EarlierPatterns)}

(***************************************************************************)
(* State.                                                                  *)
(***************************************************************************)
\* no transaction is open on the connection
NoTxn == [open |-> FALSE]

\* the transaction opened by the first statement, seeing rows
Txn(rows) == [open |-> TRUE, rows |-> rows]

\* a local variable that is not assigned yet
Unset == [unset |-> TRUE]

VARIABLES
    root_exists,     \* whether the directory args.repo_path exists
    args,            \* the parsed command line
    corpus,          \* relative path -> file, the files under the root
    db,              \* the committed rows of repository_patterns
    conn,            \* "unbound", "open" or "closed"
    txn,             \* NoTxn, or the rows as the open transaction sees them
    patterns,        \* self.patterns
    calls,           \* the calls of extract_patterns_from_repository made so far
    filtered_files,  \* the files extract_patterns_from_repository loops over
    file_i,          \* position of that loop
    report,          \* the report main() holds, Unset before line 488
    pattern_groups,  \* the groups of save_patterns_to_database
    group_i,         \* position of the insert loop
    exc,             \* what the except clause caught, or None
    raised,          \* the exception that leaves save_patterns_to_database, or None
    pc,              \* where main() is
    out              \* standard output, one tag per print

\* the state of generate_all_recommendations.py
VARIABLES
    server,               \* what the API answers: the listing, or a failure
    repositories,         \* the list generate_all_recommendations holds
    results,              \* its results
    verification_results, \* its verification_results
    repo_i,               \* position of the loop it is in
    posts,                \* what the POST requests made so far did, in order
    gpc                   \* where generate_all_recommendations is

gvars == <<server, repositories, results, verification_results, repo_i, posts, gpc>>

\* the state of pattern-extractor.py
evars == <<root_exists, args, corpus, db, conn, txn, patterns, calls, filtered_files,
           file_i, report, pattern_groups, group_i, exc, raised, pc, out>>

vars == <<evars, gvars>>

\* generate_all_recommendations.py is not running
GeneratorIdle ==
    /\ server = <<>>
    /\ repositories = <<>>
    /\ results = <<>>
    /\ verification_results = <<>>
    /\ repo_i = 1
    /\ posts = <<>>
    /\ gpc = "idle"

Init ==
    /\ GeneratorIdle
    /\ root_exists = TRUE
    /\ calls = 0
    /\ args \in [repo_path : RepoPaths, repository_id : RepositoryIdArgs,
                 report_only : BOOLEAN]
    /\ corpus \in [CorpusPaths -> {File(text) : text \in Contents} \cup {Unreadable}]
    /\ db \in InitialTables
    /\ conn = "unbound"
    /\ txn = NoTxn
    /\ patterns = <<>>
    /\ filtered_files = <<>>
    /\ file_i = 1
    /\ report = Unset
    /\ pattern_groups = <<>>
    /\ group_i = 1
    /\ exc = None
    /\ raised = None
    /\ pc = "extract"
    /\ out = <<>>

\* the roots of the one-file corpora
ScanRoots == {"/w", "/srv/node/w"}

\* files of a corpus that the filter lets through, and files that it drops
ScanPaths == {"src/t.ts", "src/node.ts"}
ExcludedPaths == {"node_modules/m.js", "dist/o.js"}

ScanFiles == {File(text) : text \in ScanContents} \cup {Unreadable}

\* the corpora of ScanInit: no file, one file, a file under node_modules
\* beside a file under dist or beside a source file
ScanCorpora ==
    {<<>>}
    \cup {p :> f : p \in ScanPaths, f \in ScanFiles}
    \cup {p :> File("fs.readFileSync(path)") : p \in ExcludedPaths}
    \cup {("node_modules/m.js" :> File("fs.readFileSync(path)")) @@ ("src/t.ts" :> f) :
             f \in ScanFiles}
    \cup {("node_modules/m.js" :> File("fs.readFileSync(path)"))
             @@ ("dist/o.js" :> File("fs.readFileSync(path)"))}

\* main() on a root that may not exist, holding at most two files
ScanInit ==
    /\ GeneratorIdle
    /\ root_exists \in BOOLEAN
    /\ calls = 0
    /\ args \in [repo_path : ScanRoots, repository_id : RepositoryIdArgs,
                 report_only : BOOLEAN]
    /\ corpus \in (IF root_exists THEN ScanCorpora ELSE {<<>>})
    /\ db \in InitialTables
    /\ conn = "unbound"
    /\ txn = NoTxn
    /\ patterns = <<>>
    /\ filtered_files = <<>>
    /\ file_i = 1
    /\ report = Unset
    /\ pattern_groups = <<>>
    /\ group_i = 1
    /\ exc = None
    /\ raised = None
    /\ pc = "extract"
    /\ out = <<>>

(***************************************************************************)
(* extract_patterns_from_repository                                        *)
(***************************************************************************)
\* lines 246-259: list the files, filter them.  rglob under a root that does
\* not exist lists nothing and raises nothing
ExtractStart ==
    /\ pc = "extract"
    /\ \E files \in all_files(IF root_exists THEN DOMAIN corpus ELSE {}) :
          filtered_files' = filtered(args.repo_path, files)
    /\ file_i' = 1
    /\ calls' = calls + 1
    /\ out' = out \o <<"starting", "found">>
    /\ pc' = "scan"
    /\ UNCHANGED <<gvars, root_exists, args, corpus, db, conn, txn, patterns, report,
                   pattern_groups, group_i, exc, raised>>

\* ScanFile on which a file that cannot be read ends the loop
ScanFile_AbortOnError ==
    /\ pc = "scan"
    /\ file_i <= Len(filtered_files)
    /\ patterns' = patterns \o _extract_patterns_from_file(
                       args.repo_path, filtered_files[file_i], corpus[filtered_files[file_i]])
    /\ out' = IF corpus[filtered_files[file_i]].ok THEN out ELSE Append(out, "error-reading")
    /\ file_i' = IF corpus[filtered_files[file_i]].ok THEN file_i + 1
                  ELSE Len(filtered_files) + 1
    /\ UNCHANGED <<gvars, root_exists, calls,
                   args, corpus, db, conn, txn, filtered_files, report,
                   pattern_groups, group_i, exc, raised, pc>>

\* lines 261-262: one turn of the loop, a call of _extract_patterns_from_file
\* (lines 267-320), which prints an error and returns if the read fails
ScanFile ==
    /\ pc = "scan"
    /\ file_i <= Len(filtered_files)
    /\ patterns' = patterns \o _extract_patterns_from_file(
                       args.repo_path, filtered_files[file_i], corpus[filtered_files[file_i]])
    /\ out' = IF corpus[filtered_files[file_i]].ok THEN out ELSE Append(out, "error-reading")
    /\ file_i' = file_i + 1
    /\ UNCHANGED <<gvars, root_exists, calls,
                   args, corpus, db, conn, txn, filtered_files, report,
                   pattern_groups, group_i, exc, raised, pc>>

\* lines 264-265
ExtractReturn ==
    /\ pc = "scan"
    /\ file_i > Len(filtered_files)
    /\ out' = Append(out, "extracted")
    /\ pc' = "report"
    /\ UNCHANGED <<gvars, root_exists, calls,
                   args, corpus, db, conn, txn, patterns, filtered_files, file_i,
                   report, pattern_groups, group_i, exc, raised>>

(***************************************************************************)
(* main, after the extraction                                              *)
(***************************************************************************)
\* lines 488-492: generate and print the report
Report ==
    /\ pc = "report"
    /\ report' = generate_pattern_report(patterns, args.repo_path)
    /\ out' = Append(out, "report")
    /\ pc' = "branch"
    /\ UNCHANGED <<gvars, root_exists, calls,
                   args, corpus, db, conn, txn, patterns, filtered_files, file_i,
                   pattern_groups, group_i, exc, raised>>

\* SaveWanted that does not look at --report-only
SaveWanted_IgnoreReportOnly(a) == Truthy(a.repository_id)

\* the condition of line 495
SaveWanted(a) == Truthy(a.repository_id) /\ ~a.report_only

\* the condition of line 497
WarnWanted(a) == ~Truthy(a.repository_id) /\ ~a.report_only

\* lines 495-498
Branch ==
    /\ pc = "branch"
    /\ IF SaveWanted(args) THEN pc' = "save" /\ out' = out
       ELSE IF WarnWanted(args) THEN pc' = "complete" /\ out' = Append(out, "no-repository-id")
       ELSE pc' = "complete" /\ out' = out
    /\ UNCHANGED <<gvars, root_exists, calls,
                   args, corpus, db, conn, txn, patterns, filtered_files, file_i,
                   report, pattern_groups, group_i, exc, raised>>

\* line 500
Complete ==
    /\ pc = "complete"
    /\ out' = Append(out, "complete")
    /\ pc' = "done"
    /\ UNCHANGED <<gvars, root_exists, calls,
                   args, corpus, db, conn, txn, patterns, filtered_files, file_i,
                   report, pattern_groups, group_i, exc, raised>>

(***************************************************************************)
(* save_patterns_to_database(args.repository_id).  Each sqlite3 call       *)
(* either succeeds or raises.  Statements run in the transaction that the  *)
(* first of them opens; other connections see the committed rows, db.      *)
(***************************************************************************)
\* lines 348-352
SaveStart ==
    /\ pc = "save"
    /\ IF patterns = <<>>
       THEN pc' = "complete" /\ out' = Append(out, "no-patterns-to-save")
       ELSE pc' = "connect" /\ out' = Append(out, "saving")
    /\ UNCHANGED <<gvars, root_exists, calls,
                   args, corpus, db, conn, txn, patterns, filtered_files, file_i,
                   report, pattern_groups, group_i, exc, raised>>

\* lines 355-356: sqlite3.connect
Connect ==
    /\ pc = "connect"
    /\ \/ conn' = "open" /\ pc' = "delete" /\ exc' = exc
       \/ conn' = conn /\ pc' = "except" /\ exc' = "connect"
    /\ UNCHANGED <<gvars, root_exists, calls,
                   args, corpus, db, txn, patterns, filtered_files, file_i, report,
                   pattern_groups, group_i, raised, out>>

\* Delete on a connection in autocommit mode (isolation_level=None): the
\* DELETE is committed at once
Delete_Autocommit ==
    /\ pc = "delete"
    /\ \/ /\ db' = DeleteRows(db, args.repository_id)
          /\ txn' = Txn(db')
          /\ pattern_groups' = GroupPatterns(patterns)
          /\ group_i' = 1
          /\ pc' = "insert"
          /\ exc' = exc
       \/ /\ pc' = "except"
          /\ exc' = "delete"
          /\ UNCHANGED <<db, txn, pattern_groups, group_i>>
    /\ UNCHANGED <<gvars, root_exists, calls,
                   args, corpus, conn, patterns, filtered_files, file_i, report,
                   raised, out>>

\* lines 359-372: the DELETE, then the grouping
Delete ==
    /\ pc = "delete"
    /\ \/ /\ txn' = Txn(DeleteRows(db, args.repository_id))
          /\ pattern_groups' = GroupPatterns(patterns)
          /\ group_i' = 1
          /\ pc' = "insert"
          /\ exc' = exc
       \/ /\ pc' = "except"
          /\ exc' = "delete"
          /\ UNCHANGED <<txn, pattern_groups, group_i>>
    /\ UNCHANGED <<gvars, root_exists, calls,
                   args, corpus, db, conn, patterns, filtered_files, file_i, report,
                   raised, out>>

\* lines 375-412: one turn of the insert loop
Insert ==
    /\ pc = "insert"
    /\ group_i <= Len(pattern_groups)
    /\ LET group_data == pattern_groups[group_i]
           pattern == WithFiles(patterns[group_data.pattern], group_data)
       IN  /\ patterns' = [patterns EXCEPT ![group_data.pattern] = pattern]
           /\ \/ /\ txn' = Txn(Append(txn.rows, Row(args.repository_id, pattern, group_data.count)))
                 /\ group_i' = group_i + 1
                 /\ UNCHANGED <<pc, exc>>
              \/ /\ pc' = "except"
                 /\ exc' = "insert"
                 /\ UNCHANGED <<txn, group_i>>
    /\ UNCHANGED <<gvars, root_exists, calls,
                   args, corpus, db, conn, filtered_files, file_i, report,
                   pattern_groups, raised, out>>

\* lines 414-415: conn.commit()
Commit ==
    /\ pc = "insert"
    /\ group_i > Len(pattern_groups)
    /\ \/ /\ db' = txn.rows
          /\ txn' = NoTxn
          /\ out' = Append(out, "saved")
          /\ pc' = "finally"
          /\ exc' = exc
       \/ /\ pc' = "except"
          /\ exc' = "commit"
          /\ UNCHANGED <<db, txn, out>>
    /\ UNCHANGED <<gvars, root_exists, calls,
                   args, corpus, conn, patterns, filtered_files, file_i, report,
                   pattern_groups, group_i, raised>>

\* lines 417-420: "if conn" on the unassigned local raises UnboundLocalError
Except ==
    /\ pc = "except"
    /\ out' = Append(out, "error-saving")
    /\ IF conn = "unbound"
       THEN raised' = "UnboundLocalError" /\ txn' = txn
       ELSE raised' = raised /\ txn' = NoTxn
    /\ pc' = "finally"
    /\ UNCHANGED <<gvars, root_exists, calls,
                   args, corpus, db, conn, patterns, filtered_files, file_i, report,
                   pattern_groups, group_i, exc>>

\* lines 421-423, and the return to main: an exception that leaves the
\* function ends main() with a traceback
Finally ==
    /\ pc = "finally"
    /\ IF conn = "unbound"
       THEN raised' = "UnboundLocalError" /\ UNCHANGED <<conn, txn>>
       ELSE raised' = raised /\ conn' = "closed" /\ txn' = NoTxn
    /\ pc' = IF raised' = None THEN "complete" ELSE "crashed"
    /\ UNCHANGED <<gvars, root_exists, calls,
                   args, corpus, db, patterns, filtered_files, file_i, report,
                   pattern_groups, group_i, exc, out>>

Next ==
    \/ ExtractStart
    \/ ScanFile
    \/ ExtractReturn
    \/ Report
    \/ Branch
    \/ SaveStart
    \/ Connect
    \/ Delete
    \/ Insert
    \/ Commit
    \/ Except
    \/ Finally
    \/ Complete

Spec == Init /\ [][Next]_vars

\* main() on the one-file corpora
ScanSpec == ScanInit /\ [][Next]_vars

(***************************************************************************)
(* A caller that uses one TypeScriptPatternExtractor for several           *)
(* extractions before it goes on as main() does.                           *)
(***************************************************************************)
\* the calls of extract_patterns_from_repository on one extractor
MaxCalls == 2

\* extract_patterns_from_repository has returned and is called again:
\* self.patterns is assigned in __init__ alone (line 81), the method and
\* _extract_patterns_from_file only append to it (line 320)
ExtractAgain ==
    /\ pc = "report"
    /\ calls < MaxCalls
    /\ pc' = "extract"
    /\ UNCHANGED <<gvars, root_exists, calls,
                   args, corpus, db, conn, txn, patterns, filtered_files, file_i,
                   report, pattern_groups, group_i, exc, raised, out>>

ClientNext ==
    \/ Next
    \/ ExtractAgain

ClientSpec == ScanInit /\ [][ClientNext]_vars

(***************************************************************************)
(* Properties.                                                             *)
(***************************************************************************)
\* the identity of a pattern: (pattern_type, pattern_content, category)
Key(p) == <<p.pattern_type, p.pattern_content, p.category>>

\* the positions of the occurrences with a given identity
Occurrences(pats, key) == {i \in DOMAIN pats : Key(pats[i]) = key}

\* the rows the current call has written for its repository: those inserted in
\* the open transaction, or those committed
WrittenRows ==
    IF txn.open THEN RowsOf(txn.rows, args.repository_id)
    ELSE IF "saved" \in Range(out) THEN RowsOf(db, args.repository_id)
    ELSE <<>>

\* C1: every group and every row written by save_patterns_to_database has
\* usage_count = the number of occurrences in self.patterns with the row's
\* (pattern_type, pattern_content, category), files = the distinct file paths
\* of those occurrences, and |files| <= usage_count; once the save is
\* committed every occurrence's identity has exactly one row.
C1_DedupInvariant ==
    /\ \A g \in DOMAIN pattern_groups :
          LET grp == pattern_groups[g]
              occ == Occurrences(patterns, Key(patterns[grp.pattern]))
          IN  /\ grp.count = Cardinality(occ)
              /\ grp.files = {patterns[i].file_path : i \in occ}
    /\ \A k \in DOMAIN WrittenRows :
          LET r == WrittenRows[k]
              occ == Occurrences(patterns, Key(r))
          IN  /\ r.usage_count = Cardinality(occ)
              /\ r.metadata.files = {patterns[i].file_path : i \in occ}
              /\ r.metadata.file_count = Cardinality(r.metadata.files)
              /\ Cardinality(r.metadata.files) <= r.usage_count
    /\ "saved" \in Range(out) =>
          \A i \in DOMAIN patterns :
              Cardinality({k \in DOMAIN WrittenRows :
                              Key(WrittenRows[k]) = Key(patterns[i])}) = 1

\* C1 witness: a committed row for a snippet found once in each of two files
C1_Witness ==
    /\ "saved" \in Range(out)
    /\ \E k \in DOMAIN WrittenRows :
          /\ WrittenRows[k].usage_count = 2
          /\ WrittenRows[k].metadata.files = {"src/a.ts", "src/b.ts"}

\* the call of save_patterns_to_database has returned to main without a
\* storage failure
SaveCompleted ==
    /\ pc \in {"complete", "done"}
    /\ SaveWanted(args)
    /\ exc = None
    /\ raised = None

\* C2: after save_patterns_to_database(R) completes without a storage failure
\* the rows stored for R are exactly the aggregated patterns of the current
\* run, one row per hash, also when the current collection is empty.
C2_ExactlyNewSet ==
    SaveCompleted =>
        RowsOf(db, args.repository_id) = SavedRows(args.repository_id, patterns)

\* the same for the runs whose collection is not empty, which holds
C2_NonEmptyReplaced ==
    (SaveCompleted /\ patterns # <<>>) =>
        RowsOf(db, args.repository_id) = SavedRows(args.repository_id, patterns)

\* the rows of R of an earlier run are there after a save that found nothing
C2_StaleRowsLeft ==
    /\ SaveCompleted
    /\ patterns = <<>>
    /\ RowsOf(db, args.repository_id) # <<>>

\* the steps of save_patterns_to_database that follow the DELETE's start
SaveFailed == exc \in {"delete", "insert", "commit"}

\* C3: a save that fails at the DELETE, at an INSERT or at the commit leaves
\* the committed rows as they were before the call: the committed table
\* changes in one step only, the successful commit, which puts the full new
\* set in place of R's rows and leaves the rows of other repositories alone.
C3_NoPartialState ==
    [][/\ SaveFailed' => db' = db
       /\ db' # db =>
            /\ pc = "insert" /\ group_i > Len(pattern_groups) /\ ~SaveFailed'
            /\ RowsOf(db', args.repository_id) = SavedRows(args.repository_id, patterns)
            /\ DeleteRows(db', args.repository_id) = DeleteRows(db, args.repository_id)
      ]_vars

\* C3 witness: an INSERT failed after the DELETE and a first INSERT were done
\* in the transaction; the call is over and R's earlier rows are in the table
C3_Witness ==
    /\ pc = "done"
    /\ exc = "insert"
    /\ group_i > 1
    /\ RowsOf(db, args.repository_id) = SavedRows(args.repository_id, EarlierPatterns)

\* the matched texts of the occurrences collected so far
MatchedTexts == {patterns[i].pattern_content : i \in DOMAIN patterns}

\* an occurrence of rule i of the registry with the given matched text
RuleOccurrence(i, text) ==
    [pattern_type |-> pattern_definitions[i].id,
     pattern_content |-> text,
     category |-> pattern_definitions[i].category]

\* C4: two occurrences have the same pattern_hash exactly when their
\* (pattern_type, pattern_content, category) are equal: for the occurrences the
\* scan has collected, and, when save_patterns_to_database has hashed them, for
\* every rule of the registry combined with every matched text.
C4_HashIffKey ==
    /\ \A i, j \in DOMAIN patterns :
          (pattern_hash(patterns[i]) = pattern_hash(patterns[j]))
              <=> (Key(patterns[i]) = Key(patterns[j]))
    /\ (pc = "insert" /\ group_i = 1) =>
          \A i, j \in DOMAIN pattern_definitions : \A t, u \in MatchedTexts :
              (pattern_hash(RuleOccurrence(i, t)) = pattern_hash(RuleOccurrence(j, u)))
                  <=> (Key(RuleOccurrence(i, t)) = Key(RuleOccurrence(j, u)))

\* C4 witness: the hashed collection holds two occurrences of different rules
\* of one category with the same matched text, and a text with the separator
C4_Witness ==
    /\ pc = "insert"
    /\ \E i, j \in DOMAIN patterns :
          /\ patterns[i].pattern_type # patterns[j].pattern_type
          /\ patterns[i].pattern_content = patterns[j].pattern_content
          /\ patterns[i].category = patterns[j].category
          /\ GroupIndex(pattern_groups, pattern_hash(patterns[i]))
                 # GroupIndex(pattern_groups, pattern_hash(patterns[j]))
    /\ \E i \in DOMAIN patterns : Contains(patterns[i].pattern_content, ":")

\* hash -> (count, files) of a grouping
AggregateView(groups) ==
    {<<groups[g].hash, groups[g].count, groups[g].files>> : g \in DOMAIN groups}

RECURSIVE ScanAll(_, _, _)
\* self.patterns after the loop of extract_patterns_from_repository over the
\* files[i..], on an extractor that holds no pattern yet
ScanAll(files, i, corp) ==
    IF i > Len(files) THEN <<>>
    ELSE _extract_patterns_from_file(args.repo_path, files[i], corp[files[i]])
         \o ScanAll(files, i + 1, corp)

\* C5: the aggregation of the run's extraction (hashes, usage_count and files
\* per hash) is the one that a run over the same corpus gives for every other
\* order in which the files can be enumerated.
C5_OrderIndependent ==
    pc = "report" =>
        \A files \in all_files(DOMAIN corpus) :
            AggregateView(GroupPatterns(ScanAll(filtered(args.repo_path, files), 1, corpus)))
                = AggregateView(GroupPatterns(patterns))

\* C5 witness: the files were enumerated in an order that is not the sorted
\* one, and a hash was found in both of them
C5_Witness ==
    /\ pc = "report"
    /\ filtered_files = <<"src/b.ts", "src/a.ts">>
    /\ \E x \in AggregateView(GroupPatterns(patterns)) : x[3] = {"src/a.ts", "src/b.ts"}

RECURSIVE SumValues(_)
\* sum(d.values())
SumValues(d) == IF d = <<>> THEN 0 ELSE d[1][2] + SumValues(Tail(d))

RECURSIVE MatchesIn(_, _)
\* the number of matches of the rules i.. of the registry in a file
MatchesIn(i, file) ==
    IF i > Len(pattern_definitions) \/ ~file.ok THEN 0
    ELSE Len(Matches[file.text][i]) + MatchesIn(i + 1, file)

RECURSIVE RawOccurrences(_)
\* the number of matches in the files filtered_files[1..n]
RawOccurrences(n) ==
    IF n = 0 THEN 0
    ELSE MatchesIn(1, corpus[filtered_files[n]]) + RawOccurrences(n - 1)

\* main has just generated and printed the report
ReportMade == pc = "branch"

\* C6: in the report of a non-empty collection the category counts and the
\* severity counts each add up to total_patterns, which is the number of raw
\* matches of the scan (not of groups).
C6_ReportSums ==
    (ReportMade /\ patterns # <<>>) =>
        /\ SumValues(report.category_breakdown) = report.total_patterns
        /\ SumValues(report.severity_breakdown) = report.total_patterns
        /\ report.total_patterns = RawOccurrences(Len(filtered_files))

\* C6 witness: a report over several occurrences, several of them in one
\* category and fewer groups than occurrences
C6_Witness ==
    /\ ReportMade
    /\ patterns # <<>>
    /\ \E i \in DOMAIN report.category_breakdown : report.category_breakdown[i][2] >= 2
    /\ Len(report.category_breakdown) >= 2
    /\ Len(GroupPatterns(patterns)) < report.total_patterns

\* the occurrences whose confidence_score is the given severity
WithScore(score) == {i \in DOMAIN patterns : patterns[i].confidence_score = score}

\* C7: the report counts an occurrence under the tier name of its rule's
\* severity: 0.3 low, 0.6 medium, 0.9 high, 1.0 critical.
C7_TierNames ==
    (ReportMade /\ patterns # <<>>) =>
        /\ Get(report.severity_breakdown, "low", 0) = Cardinality(WithScore(LOW))
        /\ Get(report.severity_breakdown, "medium", 0) = Cardinality(WithScore(MEDIUM))
        /\ Get(report.severity_breakdown, "high", 0) = Cardinality(WithScore(HIGH))
        /\ Get(report.severity_breakdown, "critical", 0) = Cardinality(WithScore(CRITICAL))

\* the offsets of the newline characters of a text, as a set of 1-based indexes
Newlines(content) == {i \in 1..Len(content) : Char(content, i) = "\n"}

\* the offset at which line k (1-indexed) of a text begins: 0, or the offset
\* after the (k-1)th newline; -1 if the text has no line k
LineBegin(content, k) ==
    IF k = 1 THEN 0
    ELSE IF \E i \in Newlines(content) :
               Cardinality({j \in Newlines(content) : j <= i}) = k - 1
    THEN CHOOSE i \in Newlines(content) :
               Cardinality({j \in Newlines(content) : j <= i}) = k - 1
    ELSE -1

\* the offset at which line k ends: that of its newline, or the end of the text
LineStop(content, k) ==
    IF \E i \in Newlines(content) : Cardinality({j \in Newlines(content) : j <= i}) = k
    THEN (CHOOSE i \in Newlines(content) :
               Cardinality({j \in Newlines(content) : j <= i}) = k) - 1
    ELSE Len(content)

\* the file whose scan has just ended
ScannedFile == filtered_files[file_i - 1]

\* C8: for every rule and every match of it in the file just scanned, the
\* occurrence appended has line_start = 1 + the newlines before the match's
\* start and line_end = 1 + the newlines before its end, 1 <= line_start <=
\* line_end, and the text from the beginning of line line_start to the end of
\* line line_end contains the match in full.
C8_LineRange ==
    (pc = "scan" /\ file_i > 1 /\ corpus[ScannedFile].ok) =>
        \A r \in DOMAIN pattern_definitions :
            LET content == corpus[ScannedFile].text
                matches == Matches[content][r]
            IN  \A k \in DOMAIN matches :
                    LET m == matches[k]
                        p == CodePattern(pattern_definitions[r], m, ScannedFile, content,
                                 _determine_framework(content,
                                     FullPath(args.repo_path, ScannedFile)))
                    IN  /\ p \in Range(patterns)
                        /\ p.line_start = 1 + Cardinality({i \in Newlines(content) : i <= m.start})
                        /\ p.line_end = 1 + Cardinality({i \in Newlines(content) : i <= m.end})
                        /\ 1 <= p.line_start
                        /\ p.line_start <= p.line_end
                        /\ LineBegin(content, p.line_start) >= 0
                        /\ LineBegin(content, p.line_start) <= m.start
                        /\ LineBegin(content, p.line_end) >= 0
                        /\ m.end <= LineStop(content, p.line_end)

\* C8 witness: the scan has appended an occurrence whose match spans two
\* lines, and one that begins after the first line
C8_Witness ==
    /\ pc = "scan"
    /\ file_i > 1
    /\ \E i \in DOMAIN patterns :
          patterns[i].file_path = ScannedFile /\ patterns[i].line_start < patterns[i].line_end
    /\ \E i \in DOMAIN patterns :
          patterns[i].file_path = ScannedFile /\ patterns[i].line_start > 1

\* a repository id was given on the command line
IdGiven == args.repository_id # None

\* save_patterns_to_database has been entered
SaveInvoked == pc \in {"save", "connect", "delete", "insert", "except", "finally"}

\* C9: storage is written, and save_patterns_to_database invoked, only when a
\* repository id is given and --report-only is not set; with no repository id
\* nothing is written; with no repository id and no --report-only the run ends
\* normally, having printed the report and then the warning.
C9_WritesOnlyWhenAsked ==
    [][/\ (SaveInvoked' \/ db' # db \/ txn' # txn \/ conn' # conn)
            => (IdGiven /\ ~args.report_only)
       /\ (pc' = "done" /\ ~IdGiven /\ ~args.report_only)
            => /\ SelectSeq(out', LAMBDA line : line # "error-reading")
                    = <<"starting", "found", "extracted", "report",
                        "no-repository-id", "complete">>
               /\ raised' = None
               /\ report' # Unset
      ]_vars

\* C9 witnesses: a run without id and without --report-only has ended, and a
\* run with an id and --report-only has ended
C9_Witness ==
    /\ pc = "done"
    /\ ~IdGiven
    /\ ~args.report_only
    /\ "no-repository-id" \in Range(out)

\* C10: when a storage write fails inside save_patterns_to_database the caller
\* can observe the failure (the call does not return as a successful call
\* does), and the report was printed.
C10_FailureSurfaced ==
    (SaveFailed /\ pc \in {"complete", "done", "crashed"}) =>
        /\ raised # None
        /\ "report" \in Range(out)

\* what C10's second half says, which holds: whenever a write has failed the
\* report of the in-memory occurrences was made and printed before
C10_ReportStillPrinted ==
    SaveFailed => ("report" \in Range(out) /\ report # Unset)

\* a write failed and main went on as after a successful save
C10_FailureSwallowed ==
    /\ SaveFailed
    /\ pc = "done"
    /\ raised = None
    /\ out[Len(out)] = "complete"

(***************************************************************************)
(* C11: a file that cannot be read.                                        *)
(***************************************************************************)
\* the files of the loop that can be read, in the loop's order
ReadableFiles == SelectSeq(filtered_files, LAMBDA f : corpus[f].ok)

\* the first extraction has returned
Extracted == pc = "report" /\ calls = 1

\* C11: when the extraction has returned, every file of the loop was visited,
\* no occurrence comes from a file that could not be read, and the occurrences
\* are those of a scan of the same files without the unreadable ones, in the
\* same order: what was collected before and after an unreadable file is kept.
C11_UnreadableSkipped ==
    Extracted =>
        /\ file_i = Len(filtered_files) + 1
        /\ \A i \in DOMAIN patterns : corpus[patterns[i].file_path].ok
        /\ patterns = ScanAll(ReadableFiles, 1, corpus)
        /\ Cardinality({i \in DOMAIN out : out[i] = "error-reading"})
               = Len(filtered_files) - Len(ReadableFiles)

\* C11 witness: the first file of the loop could not be read and the second
\* one, scanned after it, gave occurrences
C11_Witness ==
    /\ Extracted
    /\ Len(filtered_files) >= 2
    /\ ~corpus[filtered_files[1]].ok
    /\ \E i \in DOMAIN patterns : patterns[i].file_path = filtered_files[2]

(***************************************************************************)
(* C12: a corpus root that does not exist.                                 *)
(***************************************************************************)
\* C12: when the corpus root does not exist the extraction does not get to
\* the file loop, returns no collection, and no report is made: main() is
\* still before the call or has ended with an error.
C12_MissingRootFails ==
    ~root_exists =>
        /\ pc \in {"extract", "crashed"}
        /\ "extracted" \notin Range(out)
        /\ report = Unset

\* the root does not exist and main() has ended normally, with an empty
\* collection and the report "No patterns found"
C12_CompletesEmpty ==
    /\ ~root_exists
    /\ pc = "done"
    /\ patterns = <<>>
    /\ report = [message |-> "No patterns found"]
    /\ raised = None
    /\ out[Len(out)] = "complete"

(***************************************************************************)
(* C13: files under node_modules and dist.                                 *)
(***************************************************************************)
\* str(f) contains the name of an excluded directory
Excluded(repository_path, f) ==
    \/ Contains(FullPath(repository_path, f), "node_modules")
    \/ Contains(FullPath(repository_path, f), "dist")

\* C13: no file whose path contains node_modules or dist is in the loop of
\* the scan, and no occurrence has such a file as its source; when every
\* file of the corpus lies under node_modules the extraction returns no
\* occurrence; the report of an empty collection is "No patterns found".
C13_ExcludedNeverScanned ==
    /\ \A i \in DOMAIN filtered_files : ~Excluded(args.repo_path, filtered_files[i])
    /\ \A i \in DOMAIN patterns : ~Excluded(args.repo_path, patterns[i].file_path)
    /\ (/\ pc \notin {"extract", "scan"}
        /\ \A f \in DOMAIN corpus : Contains(f, "node_modules"))
          => patterns = <<>>
    /\ (ReportMade /\ patterns = <<>>) => report = [message |-> "No patterns found"]

\* C13 witness: the only file of the corpus lies under node_modules and holds
\* a match of a rule; the extraction gave nothing and the report says so
C13_Witness ==
    /\ ReportMade
    /\ root_exists
    /\ DOMAIN corpus = {"node_modules/m.js"}
    /\ MatchesIn(1, corpus["node_modules/m.js"]) > 0
    /\ patterns = <<>>
    /\ report = [message |-> "No patterns found"]

(***************************************************************************)
(* C14, C19: the framework of a file.                                      *)
(***************************************************************************)
\* the tags in the order of the tests of _determine_framework
FrameworkTags == <<"react", "vue", "angular", "express", "nodejs">>

\* whether the test for FrameworkTags[i] finds something in the file f
Heuristic(i, f) ==
    \/ Indicated[corpus[f].text][i]
    \/ i = 5 /\ Contains(FullPath(args.repo_path, f), "node")

\* the tests that find something in the file f
Hits(f) == {i \in DOMAIN FrameworkTags : Heuristic(i, f)}

\* C14: the framework of every occurrence is one value; it is the tag of the
\* first test, in the order react, vue, angular, express, nodejs, that finds
\* something in the occurrence's file, and None if none does; a file in
\* which the test of a UI framework and the nodejs test both find something
\* has the tag of the UI framework.
C14_FirstMatchWins ==
    \A k \in DOMAIN patterns :
        LET f == patterns[k].file_path
            tag == patterns[k].framework
        IN  /\ tag \in Range(FrameworkTags) \cup {None}
            /\ Hits(f) = {} => tag = None
            /\ \A i \in Hits(f) :
                   (\A j \in Hits(f) : i <= j) => tag = FrameworkTags[i]
            /\ (5 \in Hits(f) /\ Hits(f) \cap {1, 2, 3} # {})
                   => tag \in {"react", "vue", "angular"}

\* C14 witness: an occurrence tagged react from a file that imports react by
\* name and in which the nodejs test (module.exports) finds something too
C14_Witness ==
    \E k \in DOMAIN patterns :
        /\ patterns[k].framework = "react"
        /\ Indicated[corpus[patterns[k].file_path].text][5]
        /\ {1, 5} \subseteq Hits(patterns[k].file_path)

\* the content of the file f has no indicator of a framework
NoIndicator(f) == \A i \in DOMAIN framework_indicators : ~Indicated[corpus[f].text][i]

\* C19: an occurrence from a file whose content matches none of the framework
\* heuristics has no framework (None), whatever the file's path and the root.
C19_AbsentWhenNoneMatch ==
    \A k \in DOMAIN patterns :
        NoIndicator(patterns[k].file_path) => patterns[k].framework = None

\* an occurrence is tagged nodejs though the content of its file has no
\* indicator: the path of the file holds the letters "node"
C19_PathDecides ==
    \E k \in DOMAIN patterns :
        /\ NoIndicator(patterns[k].file_path)
        /\ patterns[k].framework = "nodejs"
        /\ Contains(FullPath(args.repo_path, patterns[k].file_path), "node")

(***************************************************************************)
(* C15: the file that holds the line fs.readFileSync(path) and no other.   *)
(***************************************************************************)
\* the scanned files whose text is exactly that line
SyncCallFiles ==
    {f \in Range(filtered_files) : corpus[f] = File("fs.readFileSync(path)")}

\* the occurrences of the file f
OccurrencesOf(f) == {k \in DOMAIN patterns : patterns[k].file_path = f}

\* the occurrence k is the one the scenario describes
SyncOccurrence(k) ==
    /\ patterns[k].pattern_type = "fs_sync_operations"
    /\ patterns[k].confidence_score = 9
    /\ {"blocking", "filesystem", "performance"} \subseteq Range(patterns[k].tags)
    /\ patterns[k].line_start = 1
    /\ patterns[k].line_end = 1

\* C15: after the scan, a file that holds exactly the line
\* fs.readFileSync(path) has one occurrence, and it is of rule
\* fs_sync_operations with confidence 0.9, tags blocking, filesystem and
\* performance, and line_start = line_end = 1.
C15_OneSyncOccurrence ==
    pc \notin {"extract", "scan"} =>
        \A f \in SyncCallFiles :
            /\ Cardinality(OccurrencesOf(f)) = 1
            /\ \A k \in OccurrencesOf(f) : SyncOccurrence(k)

\* what holds of such a file: exactly one of its occurrences is the one the
\* scenario describes
C15_SyncOccurrenceAmongThem ==
    pc \notin {"extract", "scan"} =>
        \A f \in SyncCallFiles :
            Cardinality({k \in OccurrencesOf(f) : SyncOccurrence(k)}) = 1

\* such a file has a second occurrence, of rule fs_async_operations, whose
\* content is the beginning fs.readFile of the synchronous call
C15_AsyncRuleMatchesToo ==
    /\ pc \notin {"extract", "scan"}
    /\ \E f \in SyncCallFiles :
          /\ Cardinality(OccurrencesOf(f)) = 2
          /\ \E k \in OccurrencesOf(f) :
                /\ patterns[k].pattern_type = "fs_async_operations"
                /\ patterns[k].pattern_content = "fs.readFile"
                /\ patterns[k].confidence_score = 3

(***************************************************************************)
(* C18: the context of an occurrence.                                      *)
(***************************************************************************)
RECURSIVE NewlineLines(_)
\* the lines that line_start and line_end number: the pieces between "\n"
NewlineLines(s) ==
    IF s = "" THEN <<>>
    ELSE LET brks == {i \in 1..Len(s) : Char(s, i) = "\n"}
         IN  IF brks = {} THEN <<s>>
             ELSE LET b == CHOOSE i \in brks : \A j \in brks : i <= j
                  IN  <<SubSeq(s, 1, b - 1)>> \o NewlineLines(SubSeq(s, b + 1, Len(s)))

\* the occurrence k has as context the `before` lines that precede line_start
\* and the `after` lines that follow line_end, fewer at the ends of the file
ContextIs(k, before, after) ==
    LET lines == NewlineLines(corpus[patterns[k].file_path].text)
        ls == patterns[k].line_start
        le == patterns[k].line_end
    IN  /\ patterns[k].context_before
              = join("\n", SubSeq(lines, Max(1, ls - before), ls - 1))
        /\ patterns[k].context_after
              = join("\n", SubSeq(lines, le + 1, Min(Len(lines), le + after)))

\* C18: for every occurrence, context_before is the 3 lines before line_start
\* and context_after the 2 lines after line_end (fewer at the ends of the
\* file), each joined with newlines; no line of the match is in them.
C18_ContextWindow ==
    \A k \in DOMAIN patterns : ContextIs(k, 3, 2)

\* what holds in files whose only line break is the newline: 2 lines before
\* and 2 lines after
C18_TwoBeforeTwoAfter ==
    \A k \in DOMAIN patterns :
        ~Contains(corpus[patterns[k].file_path].text, "\f") => ContextIs(k, 2, 2)

\* an occurrence on line 4 whose context_before is lines 2 and 3
C18_OnlyTwoBefore ==
    \E k \in DOMAIN patterns :
        /\ patterns[k].line_start = 4
        /\ patterns[k].context_before = "b\nc"

\* an occurrence after a form feed: splitlines() breaks the line there,
\* count('\n') does not, and context_after begins with the match's own line
C18_OwnLineInContext ==
    \E k \in DOMAIN patterns :
        /\ Contains(corpus[patterns[k].file_path].text, "\f")
        /\ patterns[k].pattern_content = "fs.statSync"
        /\ patterns[k].context_after = "fs.statSync(p)\nc"

(***************************************************************************)
(* C20: release of the connection and the transaction.                     *)
(***************************************************************************)
\* main() is past the call of save_patterns_to_database, or never made it
SaveExited == pc \in {"complete", "done", "crashed"}

\* C20: on every exit of save_patterns_to_database (after the commit, after a
\* failure of the DELETE, of an INSERT or of the commit, after a failure of
\* connect) no connection is open, no transaction is open, and the cleanup
\* ran to its end: no exception came out of the except and finally clauses.
C20_ReleasedOnEveryExit ==
    SaveExited =>
        /\ conn # "open"
        /\ ~txn.open
        /\ raised = None

\* what holds on every exit: a connection that was opened is closed and no
\* transaction is open
C20_OpenedIsClosed ==
    SaveExited => (conn # "open" /\ ~txn.open)

\* connect failed, and the cleanup itself raised: "if conn" reads a local
\* that was never assigned
C20_CleanupRaises ==
    /\ pc = "crashed"
    /\ exc = "connect"
    /\ conn = "unbound"
    /\ raised = "UnboundLocalError"
    /\ "complete" \notin Range(out)

(***************************************************************************)
(* C17: several extractions on one extractor.                              *)
(***************************************************************************)
\* the collection that one extraction over the corpus gives
OneRun == ScanAll(filtered_files, 1, corpus)

\* C17: whenever extract_patterns_from_repository has returned, after the
\* first call or a later one, the collection holds the occurrences of one
\* extraction over the corpus and no more; so does total_patterns of the
\* report made from it, and the counts of the groups a save makes of it.
C17_OneRunOnly ==
    /\ pc = "report" => (Len(patterns) = Len(OneRun) /\ Range(patterns) = Range(OneRun))
    /\ (ReportMade /\ patterns # <<>>) => report.total_patterns = Len(OneRun)
    /\ pc = "insert" =>
          \A g \in DOMAIN pattern_groups :
              pattern_groups[g].count
                 = Cardinality({k \in DOMAIN OneRun :
                                  pattern_hash(OneRun[k]) = pattern_groups[g].hash})

\* the second call has returned and the collection holds every occurrence of
\* the corpus twice
C17_CarriedOver ==
    /\ pc = "report"
    /\ calls = 2
    /\ OneRun # <<>>
    /\ patterns = OneRun \o OneRun

(***************************************************************************)
(* generate_all_recommendations.py: MultiRepositoryRecommendationGenerator *)
(* against the API.  JSON values carry their type; a request either        *)
(* answers or raises requests.exceptions.RequestException.                 *)
(***************************************************************************)
\* the repositories a listing holds at most
MaxRepos == 2

JInt(n) == [t |-> "int", v |-> n]
JList(l) == [t |-> "list", v |-> l]
JDict(d) == [t |-> "dict", v |-> d]

\* a request that raised, with str(e)
RequestFailed(message) == [ok |-> FALSE, error |-> message]

\* a request that answered, with response.json()
Answered(json) == [ok |-> TRUE, json |-> json]

\* d.get(key, default) of a dict
DictGet(d, key, default) == IF key \in DOMAIN d THEN d[key] ELSE default

\* the entries of a listing: without id, with id 0, with ids 1 and 2, with
\* and without name and techStack
Repos == {
    [name |-> "docs"],
    [id |-> 0, name |-> "zero", techStack |-> "go"],
    [id |-> 1, name |-> "web", techStack |-> "react"],
    [id |-> 2]
}

RECURSIVE SeqsUpTo(_, _)
\* the sequences over S of length at most n
SeqsUpTo(S, n) ==
    IF n = 0 THEN {<<>>}
    ELSE LET shorter == SeqsUpTo(S, n - 1)
         IN  shorter \cup {Append(l, x) : l \in shorter, x \in S}

\* what GET /api/repositories does
Listings ==
    {RequestFailed("503 Server Error")}
    \cup {Answered(l) : l \in SeqsUpTo(Repos, MaxRepos)}

\* what POST /api/repositories/{id}/recommendations answers
ResultData == {
    JDict([recommendations |-> JList(<<"r1", "r2">>)]),
    JDict([count |-> JInt(3)]),
    JDict([total |-> JInt(1)]),
    JDict([added |-> JList(<<"r1">>), kept |-> JList(<<"r1", "r2">>), ok |-> JInt(1)]),
    JList(<<"r1">>)
}

\* what the POST does
PostOutcomes ==
    {RequestFailed("500 Server Error")} \cup {Answered(d) : d \in ResultData}

\* a recommendation with the metrics given
Recommendation(metrics) == JDict([metrics |-> JDict(metrics)])

\* what GET /api/repositories/{id}/recommendations answers
Recommendations == {
    JList(<<>>),
    JList(<<Recommendation([timeSaved |-> "2h"]), Recommendation([timeSaved |-> "N/A"])>>),
    JDict([recommendations |-> JList(<<Recommendation([bugsPrevented |-> "3"])>>)]),
    Recommendation([performanceGain |-> ""])
}

\* what that GET does
GetOutcomes ==
    {RequestFailed("500 Server Error")} \cup {Answered(d) : d \in Recommendations}

\* the largest number of a finite set of naturals, 0 for the empty set
MaxOf(S) == IF S = {} THEN 0 ELSE CHOOSE m \in S : \A x \in S : x <= m

\* lines 70-85: the count taken from result_data
recommendations_count(result_data) ==
    IF result_data.t = "dict"
    THEN LET d == result_data.v
         IN  IF "recommendations" \in DOMAIN d THEN Len(d.recommendations.v)
             ELSE IF "count" \in DOMAIN d THEN d.count.v
             ELSE IF "total" \in DOMAIN d THEN d.total.v
             ELSE MaxOf({Len(d[key].v) : key \in {k \in DOMAIN d : d[k].t = "list"}})
    ELSE IF result_data.t = "list" THEN Len(result_data.v)
    ELSE 0

\* RecommendationResult, without generation_time (a reading of the clock)
RecommendationResult(repository_id, repository_name, tech_stack, count, success, error) ==
    [repository_id |-> repository_id,
     repository_name |-> repository_name,
     tech_stack |-> tech_stack,
     recommendations_count |-> count,
     success |-> success,
     error_message |-> error]

\* generate_recommendations_for_repository, given what the POST did
generate_recommendations_for_repository(repo_id, repo_name, tech_stack, post) ==
    IF post.ok
    THEN RecommendationResult(repo_id, repo_name, tech_stack,
                              recommendations_count(post.json), TRUE, "")
    ELSE RecommendationResult(repo_id, repo_name, tech_stack, 0, FALSE, post.error)

JNull == [t |-> "null"]

\* "if not x" for a JSON list or dict
Empty(json) ==
    \/ json.t = "list" /\ json.v = <<>>
    \/ json.t = "dict" /\ DOMAIN json.v = {}

\* lines 137-141: has_metrics of one recommendation (an absent key and an
\* empty string are both false)
has_metrics(rec) ==
    LET metrics == IF "metrics" \in DOMAIN rec.v THEN rec.v.metrics.v ELSE <<>>
        filled(key) == DictGet(metrics, key, "") \notin {"", "N/A"}
    IN  filled("timeSaved") \/ filled("bugsPrevented") \/ filled("performanceGain")

\* the count of lines 133-143 over a list of recommendations
metrics_count(rec_list) ==
    Cardinality({i \in DOMAIN rec_list : rec_list[i].t = "dict" /\ has_metrics(rec_list[i])})

\* the dict returned at lines 176-182
Verified(total_recommendations, count, sample_recommendation) ==
    [status |-> "success",
     total_recommendations |-> total_recommendations,
     recommendations_with_metrics |-> count,
     metrics_populated |-> count > 0,
     sample_recommendation |-> sample_recommendation]

\* verify_metrics_populated, given what the GET did
verify_metrics_populated(get) ==
    IF ~get.ok
    THEN [status |-> "error", error |-> get.error, metrics_populated |-> FALSE]
    ELSE LET recommendations == get.json
         IN  IF Empty(recommendations)
             THEN [status |-> "no_recommendations", metrics_populated |-> FALSE]
             ELSE IF recommendations.t = "list"
             THEN Verified(Len(recommendations.v), metrics_count(recommendations.v),
                           recommendations.v[1])
             ELSE IF /\ "recommendations" \in DOMAIN recommendations.v
                     /\ recommendations.v.recommendations.t = "list"
             THEN LET rec_list == recommendations.v.recommendations.v
                  IN  Verified(Len(rec_list), metrics_count(rec_list),
                               IF rec_list = <<>> THEN JNull ELSE rec_list[1])
             ELSE Verified(1, IF has_metrics(recommendations) THEN 1 ELSE 0,
                           recommendations)

\* "if not repo_id" for repo_id = repo.get('id')
MissingId(repo) == "id" \notin DOMAIN repo \/ repo.id = 0

\* the extractor is not running
ExtractorIdle ==
    /\ root_exists = TRUE
    /\ args = [repo_path |-> "/w", repository_id |-> None, report_only |-> TRUE]
    /\ corpus = <<>>
    /\ db = <<>>
    /\ conn = "unbound"
    /\ txn = NoTxn
    /\ patterns = <<>>
    /\ calls = 0
    /\ filtered_files = <<>>
    /\ file_i = 1
    /\ report = Unset
    /\ pattern_groups = <<>>
    /\ group_i = 1
    /\ exc = None
    /\ raised = None
    /\ pc = "idle"
    /\ out = <<>>

\* generate_all_recommendations is called
BatchInit ==
    /\ ExtractorIdle
    /\ server \in Listings
    /\ repositories = <<>>
    /\ results = <<>>
    /\ verification_results = <<>>
    /\ repo_i = 1
    /\ posts = <<>>
    /\ gpc = "start"

\* lines 193-200: fetch_repositories (lines 38-53), which gives [] when the
\* request fails, and the return of [] when there is no repository
Fetch ==
    /\ gpc = "start"
    /\ repositories' = IF server.ok THEN server.json ELSE <<>>
    /\ gpc' = IF repositories' = <<>> THEN "returned" ELSE "generate"
    /\ UNCHANGED <<evars, server, results, verification_results, repo_i, posts>>

\* GenerateTurn in which a failed request ends the loop
GenerateTurn_AbortOnFailure ==
    /\ gpc = "generate"
    /\ repo_i <= Len(repositories)
    /\ LET repo == repositories[repo_i]
           repo_name == DictGet(repo, "name", "Unknown")
           tech_stack == DictGet(repo, "techStack", "Unknown")
       IN  IF MissingId(repo)
           THEN /\ repo_i' = repo_i + 1
                /\ UNCHANGED <<results, posts>>
           ELSE \E post \in PostOutcomes :
                   /\ results' = Append(results, generate_recommendations_for_repository(
                                     repo.id, repo_name, tech_stack, post))
                   /\ posts' = Append(posts, post)
                   /\ repo_i' = IF post.ok THEN repo_i + 1 ELSE Len(repositories) + 1
    /\ UNCHANGED <<evars, server, repositories, verification_results, gpc>>

\* lines 203-216: one turn of the generation loop
GenerateTurn ==
    /\ gpc = "generate"
    /\ repo_i <= Len(repositories)
    /\ LET repo == repositories[repo_i]
           repo_name == DictGet(repo, "name", "Unknown")
           tech_stack == DictGet(repo, "techStack", "Unknown")
       IN  IF MissingId(repo)
           THEN /\ repo_i' = repo_i + 1
                /\ UNCHANGED <<results, posts>>
           ELSE \E post \in PostOutcomes :
                   /\ results' = Append(results, generate_recommendations_for_repository(
                                     repo.id, repo_name, tech_stack, post))
                   /\ posts' = Append(posts, post)
                   /\ repo_i' = repo_i + 1
    /\ UNCHANGED <<evars, server, repositories, verification_results, gpc>>

\* lines 218-226: the loop is over
GenerateDone ==
    /\ gpc = "generate"
    /\ repo_i > Len(repositories)
    /\ verification_results' = <<>>
    /\ repo_i' = 1
    /\ gpc' = "verify"
    /\ UNCHANGED <<evars, server, repositories, results, posts>>

\* lines 227-240: one turn of the verification loop
VerifyTurn ==
    /\ gpc = "verify"
    /\ repo_i <= Len(repositories)
    /\ LET repo == repositories[repo_i]
           repo_name == DictGet(repo, "name", "Unknown")
       IN  IF MissingId(repo)
           THEN UNCHANGED verification_results
           ELSE \E get \in GetOutcomes :
                   verification_results' =
                       Append(verification_results,
                              [repository_id |-> repo.id, repository_name |-> repo_name]
                                  @@ verify_metrics_populated(get))
    /\ repo_i' = repo_i + 1
    /\ UNCHANGED <<evars, server, repositories, results, posts, gpc>>

\* lines 243-245: self.verification_results is set, results returned
Return ==
    /\ gpc = "verify"
    /\ repo_i > Len(repositories)
    /\ gpc' = "returned"
    /\ UNCHANGED <<evars, server, repositories, results, verification_results,
                   repo_i, posts>>

BatchNext ==
    \/ Fetch
    \/ GenerateTurn
    \/ GenerateDone
    \/ VerifyTurn
    \/ Return

BatchSpec == BatchInit /\ [][BatchNext]_vars

(***************************************************************************)
(* C16: a request that fails in the batch.                                 *)
(***************************************************************************)
\* the listed repositories that have an id, as line 208 tests it ("if not
\* repo_id": an absent id and the id 0 both count as missing), in order
WithId(repos) == SelectSeq(repos, LAMBDA repo : ~MissingId(repo))

\* the generation loop is over
LoopOver == gpc \in {"verify", "returned"} /\ repositories # <<>>

====
